---- MODULE Spec2Model ----
(***************************************************************************)
(* Model of the Global Workflow Updated Trigger: the decision function     *)
(* shouldEmit (lib/diff) and the polling loop of                           *)
(* GlobalWorkflowUpdatedTrigger.trigger().                                 *)
(*                                                                         *)
(* Time is counted in milliseconds since the Unix epoch and scaled down    *)
(* to 0..MaxTime, so every timestamp string of the model is a genuine ISO  *)
(* string "1970-01-01T00:00:00.00<n>Z".  JavaScript's undefined is the     *)
(* value Undefined; NaN is the value NaN.                                  *)
(*                                                                         *)
(* Environment assumptions: the wall clock never runs backwards; the       *)
(* identifiers of one listing are pairwise distinct (they are the primary  *)
(* key of the remote workflow table); this.emit either delivers the whole  *)
(* batch or throws; a node runs one loop at a time (a new trigger() call   *)
(* happens only after the process, or the previous loop, has ended).  The  *)
(* properties of the loop are those of a workflow holding one node of this *)
(* type; a second node is added in PairSpec.  The remote                   *)
(* instance's clock may differ from the local one, so a reported updatedAt *)
(* may lie in the local future.                                            *)
(***************************************************************************)
EXTENDS Integers, Sequences, FiniteSets, TLC

VARIABLES
    now,             \* wall clock read by new Date()
    cfg,             \* node parameters read by trigger()
    staticData,      \* getWorkflowStaticData('global'): lastSync, seenMap
    active,          \* the closure flag tested by while (active)
    pc,              \* position of the loop
    list,            \* const list of the current cycle
    lastSyncDateIso, \* const lastSyncDateIso of the current cycle
    toEmit,          \* const toEmit of the current cycle
    idx,             \* position of the for..of iterator in list
    payload,         \* payload awaiting getWorkflow
    sink,            \* batches handed to this.emit in the current cycle
    lastEmitted,     \* history: id -> updatedAt of its latest emission
    cycleStart,      \* history: staticData as it was when the scan began
    truncated,       \* history: the scan of this cycle ended at the break
    outcome,         \* history: how the latest cycle ended, or that trigger()
                     \* has run and no cycle has begun since
    repeat,          \* the remote is unchanged since the previous listing
    prevClean,       \* history: that previous cycle neither failed nor broke off,
                     \* and ran under the parameters of the present run
    detailFailed,    \* history: ids whose getWorkflow failed in this cycle
    emittedAfterStop, \* history: batches emitted since closeFunction was called
    fnArgs,          \* arguments of a direct call of shouldEmit
    fnCalled,        \* the direct call has returned
    fnResult,        \* its result
    peer             \* a second node of this type, when one is deployed

vars == <<now, cfg, staticData, active, pc, list, lastSyncDateIso, toEmit,
          idx, payload, sink, lastEmitted, cycleStart, truncated, outcome,
          repeat, prevClean, detailFailed, emittedAfterStop, fnArgs, fnCalled,
          fnResult, peer>>

loopVars == <<list, lastSyncDateIso, toEmit, idx, payload>>
histVars == <<sink, lastEmitted, cycleStart, truncated, outcome, repeat, prevClean,
             detailFailed, emittedAfterStop>>
fnVars   == <<fnArgs, fnCalled, fnResult>>
peerVars == <<peer>>

-----------------------------------------------------------------------------
(* Bounds *)

MaxTime == 2

-----------------------------------------------------------------------------
(* JavaScript values *)

Undefined == "undefined"
NaN == -1

ToISOString(ms) == "1970-01-01T00:00:00.00" \o ToString(ms) \o "Z"

EpochIso == "1970-01-01T00:00:00.000Z"

\* new Date(s).getTime(): the milliseconds of an ISO string, NaN otherwise
DateParse(s) ==
    IF \E ms \in 0..MaxTime : ToISOString(ms) = s
    THEN CHOOSE ms \in 0..MaxTime : ToISOString(ms) = s
    ELSE NaN

\* !v for the values a timestamp or a name can take
Falsy(v) == v \in {Undefined, ""}

\* a > b on two Date objects: numeric comparison, false if either is NaN
DateGreater(a, b) == a # NaN /\ b # NaN /\ a > b

\* a ?? b
Coalesce(a, b) == IF a = Undefined THEN b ELSE a

-----------------------------------------------------------------------------
(* lib/diff: shouldEmit *)

\* a <= b on two Date objects
DateLessEq(a, b) == a # NaN /\ b # NaN /\ a <= b

\* variant: the comparisons admit equality
shouldEmitNonStrict(updatedAtIso, lastSyncIso, seenAtIso) ==
    IF Falsy(updatedAtIso) THEN FALSE
    ELSE LET updatedAt == DateParse(updatedAtIso) IN
         IF updatedAt = NaN THEN FALSE
         ELSE LET lastSync == DateParse(IF Falsy(lastSyncIso) THEN EpochIso ELSE lastSyncIso)
                  seenAt == DateParse(IF Falsy(seenAtIso) THEN EpochIso ELSE seenAtIso)
              IN  DateLessEq(lastSync, updatedAt) /\ DateLessEq(seenAt, updatedAt)

\* variant: only the lastSync watermark is consulted
shouldEmitLastSyncOnly(updatedAtIso, lastSyncIso, seenAtIso) ==
    IF Falsy(updatedAtIso) THEN FALSE
    ELSE LET updatedAt == DateParse(updatedAtIso) IN
         IF updatedAt = NaN THEN FALSE
         ELSE LET lastSync == DateParse(IF Falsy(lastSyncIso) THEN EpochIso ELSE lastSyncIso)
              IN  DateGreater(updatedAt, lastSync)

\* variant: the watermarks are parsed without the epoch default
shouldEmitNoDefault(updatedAtIso, lastSyncIso, seenAtIso) ==
    IF Falsy(updatedAtIso) THEN FALSE
    ELSE LET updatedAt == DateParse(updatedAtIso) IN
         IF updatedAt = NaN THEN FALSE
         ELSE LET lastSync == DateParse(lastSyncIso)
                  seenAt == DateParse(seenAtIso)
              IN  DateGreater(updatedAt, lastSync) /\ DateGreater(updatedAt, seenAt)

\* variant: no guard on updatedAt, and the test written as "not older"
shouldEmitUnguarded(updatedAtIso, lastSyncIso, seenAtIso) ==
    LET updatedAt == DateParse(updatedAtIso)
        lastSync == DateParse(IF Falsy(lastSyncIso) THEN EpochIso ELSE lastSyncIso)
        seenAt == DateParse(IF Falsy(seenAtIso) THEN EpochIso ELSE seenAtIso)
    IN  ~DateLessEq(updatedAt, lastSync) /\ ~DateLessEq(updatedAt, seenAt)

shouldEmit(updatedAtIso, lastSyncIso, seenAtIso) ==
    IF Falsy(updatedAtIso) THEN FALSE
    ELSE LET updatedAt == DateParse(updatedAtIso) IN
         IF updatedAt = NaN THEN FALSE
         ELSE LET lastSync == DateParse(IF Falsy(lastSyncIso) THEN EpochIso ELSE lastSyncIso)
                  seenAt == DateParse(IF Falsy(seenAtIso) THEN EpochIso ELSE seenAtIso)
              IN  DateGreater(updatedAt, lastSync) /\ DateGreater(updatedAt, seenAt)

-----------------------------------------------------------------------------
(* Node parameters *)

DefaultExcludeRegex == "^(_|Backup|Global Workflow Updated Trigger)"

\* a pattern that matches the names given to nameless workflows
PlaceholderExcludeRegex == "^workflow-"

MaxPerCycleValues == {0, 1}

\* the parameter sets of the model: the default pattern with every cap and
\* enrichment setting, the placeholder pattern, and a cap below zero
Configs ==
    [maxPerCycle : MaxPerCycleValues,
     emitFullWorkflow : BOOLEAN,
     excludeRegex : {DefaultExcludeRegex}]
    \cup {[maxPerCycle |-> 0, emitFullWorkflow |-> FALSE,
           excludeRegex |-> PlaceholderExcludeRegex],
          [maxPerCycle |-> -1, emitFullWorkflow |-> FALSE,
           excludeRegex |-> DefaultExcludeRegex]}

\* new RegExp(pattern, 'i').test(name), for the names of the model
RegexTest(pattern, name) ==
    \/ /\ pattern = DefaultExcludeRegex
       /\ name \in {"_tmp", "Backup-1", "backup-1"}
    \/ /\ pattern = PlaceholderExcludeRegex
       /\ name \in {"workflow-1", "workflow-2", "Workflow-1"}

\* excludeRegex && excludeRegex.test(name); an empty pattern gives no regex
Excluded(pattern, name) == pattern # "" /\ RegexTest(pattern, name)

-----------------------------------------------------------------------------
(* The listing returned by GET /api/v1/workflows *)

NoId == 0
WorkflowIds == {1, 2}

IsoTimes == {ToISOString(ms) : ms \in 1..MaxTime}

NullWf == [isNull |-> TRUE, id |-> NoId, name |-> Undefined,
           updatedAt |-> Undefined, updated_at |-> Undefined]

Wf(id, name, updatedAt, updated_at) ==
    [isNull |-> FALSE, id |-> id, name |-> name,
     updatedAt |-> updatedAt, updated_at |-> updated_at]

\* the entries a listing can hold: every workflow with every timestamp,
\* and for workflow 1 each irregular shape the loop guards against
Candidates ==
    {Wf(id, "Orders", u, Undefined) : id \in WorkflowIds, u \in IsoTimes}
    \cup {Wf(1, "Orders", u, Undefined) : u \in {Undefined, "", "nope"}}
    \cup {Wf(1, "Orders", Undefined, ToISOString(MaxTime)),
          Wf(1, "_tmp", ToISOString(MaxTime), Undefined),
          Wf(1, Undefined, ToISOString(MaxTime), Undefined),
          Wf(NoId, "Orders", ToISOString(MaxTime), Undefined),
          NullWf}

\* variant: only a null entry is passed over
HasIdUnchecked(wf) == ~wf.isNull

\* !(!wf || wf.id == null)
HasId(wf) == ~wf.isNull /\ wf.id # NoId

\* listings of at most one entry per workflow whose identifiers are distinct
Listings ==
    {l \in UNION {[1..n -> Candidates] : n \in 0..Cardinality(WorkflowIds)} :
        \A i, j \in DOMAIN l :
            (i # j /\ HasId(l[i]) /\ HasId(l[j])) => l[i].id # l[j].id}

\* the bodies getAllWorkflows can receive: the array itself, an object
\* holding the array under data, an object without data
Responses ==
    {[isArray |-> TRUE, hasData |-> FALSE, items |-> l] : l \in Listings}
    \cup {[isArray |-> FALSE, hasData |-> TRUE, items |-> l] : l \in Listings}
    \cup {[isArray |-> FALSE, hasData |-> FALSE, items |-> <<>>]}

\* Array.isArray(res) ? res : res?.data ?? []
ListOf(res) ==
    IF res.isArray THEN res.items
    ELSE IF res.hasData THEN res.items ELSE <<>>

\* String(wf.id)
IdString(id) == ToString(id)

\* wf.name ?? `workflow-${id}`
NameOf(wf) == Coalesce(wf.name, "workflow-" \o IdString(wf.id))

\* wf.updatedAt ?? wf.updated_at ?? undefined
UpdatedAtOf(wf) == Coalesce(wf.updatedAt, Coalesce(wf.updated_at, Undefined))

\* staticData.seenMap[id]
SeenAt(seenMap, id) == IF id \in DOMAIN seenMap THEN seenMap[id] ELSE Undefined

\* variant: the decision is taken without the seenMap entry
QualifiesUnseen(wf, regex, lastSync, seenMap) ==
    /\ HasId(wf)
    /\ ~Excluded(regex, NameOf(wf))
    /\ shouldEmit(UpdatedAtOf(wf), lastSync, Undefined)

\* variant: the pattern is tested against wf.name, not the defaulted name
QualifiesRawName(wf, regex, lastSync, seenMap) ==
    /\ HasId(wf)
    /\ ~Excluded(regex, wf.name)
    /\ shouldEmit(UpdatedAtOf(wf), lastSync, SeenAt(seenMap, IdString(wf.id)))

\* the test of lines 148-164 on one entry: it passes the filters and
\* shouldEmit accepts it against the given watermarks
Qualifies(wf, regex, lastSync, seenMap) ==
    /\ HasId(wf)
    /\ ~Excluded(regex, NameOf(wf))
    /\ shouldEmit(UpdatedAtOf(wf), lastSync, SeenAt(seenMap, IdString(wf.id)))

NoPayload == [id |-> "", name |-> "", updatedAt |-> "", hasWorkflow |-> FALSE]

Payload(wf) ==
    [id |-> IdString(wf.id), name |-> NameOf(wf),
     updatedAt |-> UpdatedAtOf(wf), hasWorkflow |-> FALSE]

\* the records that an uncapped scan of lines 147-180 without enrichment
\* queues from the listing l, against the given watermarks
RECURSIVE QualifyingOf(_, _, _, _)
QualifyingOf(l, regex, lastSync, seenMap) ==
    IF l = <<>> THEN <<>>
    ELSE (IF Qualifies(Head(l), regex, lastSync, seenMap)
          THEN <<Payload(Head(l))>> ELSE <<>>)
         \o QualifyingOf(Tail(l), regex, lastSync, seenMap)

NoSeenMap == [k \in {} |-> Undefined]

\* variant: seenMap is rebuilt from the batch alone
AdvanceSeenFromBatch(seenMap, batch) ==
    [k \in {batch[j].id : j \in DOMAIN batch} |->
        batch[CHOOSE j \in DOMAIN batch : batch[j].id = k].updatedAt]

\* variant: only the first record of the batch is stored
AdvanceSeenFirstOnly(seenMap, batch) ==
    IF batch = <<>> THEN seenMap
    ELSE [k \in DOMAIN seenMap \cup {batch[1].id} |->
            IF k = batch[1].id THEN batch[1].updatedAt ELSE seenMap[k]]

\* the for..of loop of lines 186-188 over the emitted batch
RECURSIVE AdvanceSeen(_, _)
AdvanceSeen(seenMap, batch) ==
    IF batch = <<>> THEN seenMap
    ELSE LET item == Head(batch)
             next == [k \in DOMAIN seenMap \cup {item.id} |->
                        IF k = item.id THEN item.updatedAt ELSE seenMap[k]]
         IN  AdvanceSeen(next, Tail(batch))

-----------------------------------------------------------------------------
(* Initial state: the node is loaded, trigger() has not been called, the   *)
(* workflow's static data is empty                                         *)

FnIdle == [u |-> Undefined, l |-> Undefined, s |-> Undefined]

ProgramInit ==
    /\ now = 1
    /\ cfg = [maxPerCycle |-> 0, emitFullWorkflow |-> FALSE, excludeRegex |-> ""]
    /\ staticData = [lastSync |-> Undefined, hasSeenMap |-> FALSE, seenMap |-> NoSeenMap]
    /\ active = FALSE
    /\ pc = "idle"
    /\ list = <<>>
    /\ lastSyncDateIso = Undefined
    /\ toEmit = <<>>
    /\ idx = 1
    /\ payload = NoPayload
    /\ sink = <<>>
    /\ lastEmitted = NoSeenMap
    /\ cycleStart = staticData
    /\ truncated = FALSE
    /\ outcome = "none"
    /\ repeat = FALSE
    /\ prevClean = FALSE
    /\ detailFailed = {}
    /\ emittedAfterStop = 0

\* no second node is deployed
NoPeer == [shared |-> FALSE,
           staticData |-> [lastSync |-> Undefined, hasSeenMap |-> FALSE,
                           seenMap |-> NoSeenMap],
           batch |-> <<>>]

Init ==
    /\ ProgramInit
    /\ fnArgs = FnIdle
    /\ fnCalled = FALSE
    /\ fnResult = FALSE
    /\ peer = NoPeer

-----------------------------------------------------------------------------
(* trigger() and the host *)

\* variant: trigger() starts every run from the epoch
triggerFromEpoch ==
    /\ pc \in {"idle", "done"}
    /\ cfg' \in Configs
    /\ staticData' =
          [lastSync |-> EpochIso,
           hasSeenMap |-> TRUE,
           seenMap |-> IF staticData.hasSeenMap THEN staticData.seenMap
                       ELSE NoSeenMap]
    /\ active' = TRUE
    /\ pc' = "while"
    /\ cycleStart' = staticData'
    /\ prevClean' = (prevClean /\ cfg' = cfg)
    /\ outcome' = "started"
    /\ emittedAfterStop' = 0
    /\ UNCHANGED <<now, loopVars, sink, lastEmitted, truncated, repeat,
                   detailFailed, fnVars, peerVars>>

\* variant: trigger() starts every run with an empty seenMap
triggerEmptySeenMap ==
    /\ pc \in {"idle", "done"}
    /\ cfg' \in Configs
    /\ staticData' =
          [lastSync |-> IF Falsy(staticData.lastSync) THEN EpochIso
                        ELSE staticData.lastSync,
           hasSeenMap |-> TRUE,
           seenMap |-> NoSeenMap]
    /\ active' = TRUE
    /\ pc' = "while"
    /\ cycleStart' = staticData'
    /\ prevClean' = (prevClean /\ cfg' = cfg)
    /\ outcome' = "started"
    /\ emittedAfterStop' = 0
    /\ UNCHANGED <<now, loopVars, sink, lastEmitted, truncated, repeat,
                   detailFailed, fnVars, peerVars>>

\* trigger(): read the parameters, default the static data, start the loop
trigger ==
    /\ pc \in {"idle", "done"}
    /\ cfg' \in Configs
    /\ staticData' =
          [lastSync |-> IF Falsy(staticData.lastSync) THEN EpochIso
                        ELSE staticData.lastSync,
           hasSeenMap |-> TRUE,
           seenMap |-> IF staticData.hasSeenMap THEN staticData.seenMap
                       ELSE NoSeenMap]
    /\ active' = TRUE
    /\ pc' = "while"
    /\ cycleStart' = staticData'
    /\ prevClean' = (prevClean /\ cfg' = cfg)
    /\ outcome' = "started"
    /\ emittedAfterStop' = 0
    /\ UNCHANGED <<now, loopVars, sink, lastEmitted, truncated, repeat,
                   detailFailed, fnVars, peerVars>>

\* variant: closeFunction() also abandons the cycle in flight
closeFunctionAborting ==
    /\ pc \notin {"idle", "done"}
    /\ active
    /\ active' = FALSE
    /\ pc' = "done"
    /\ UNCHANGED <<now, cfg, staticData, loopVars, histVars, fnVars, peerVars>>

\* closeFunction(): active = false
closeFunction ==
    /\ pc \notin {"idle", "done"}
    /\ active
    /\ active' = FALSE
    /\ UNCHANGED <<now, cfg, staticData, pc, loopVars, histVars, fnVars, peerVars>>

\* the process ends while the loop is suspended at an await; the static
\* data persists, the loop and its locals are gone
ProcessExit ==
    /\ pc \in {"getAllWorkflows", "getWorkflow", "sleep"}
    /\ pc' = "idle"
    /\ active' = FALSE
    /\ list' = <<>>
    /\ lastSyncDateIso' = Undefined
    /\ toEmit' = <<>>
    /\ idx' = 1
    /\ payload' = NoPayload
    /\ sink' = <<>>
    /\ cycleStart' = staticData
    /\ truncated' = FALSE
    /\ outcome' = "none"
    /\ repeat' = FALSE
    /\ prevClean' = FALSE
    /\ detailFailed' = {}
    /\ emittedAfterStop' = 0
    /\ UNCHANGED <<now, cfg, staticData, lastEmitted, fnVars, peerVars>>

\* the wall clock advances
Tick ==
    /\ now < MaxTime
    /\ now' = now + 1
    /\ UNCHANGED <<cfg, staticData, active, pc, loopVars, histVars, fnVars, peerVars>>

-----------------------------------------------------------------------------
(* loop() *)

\* variant: while (true)
LoopTestForever ==
    /\ pc = "while"
    /\ pc' = "getAllWorkflows"
    /\ UNCHANGED <<now, cfg, staticData, active, loopVars, histVars, fnVars, peerVars>>

\* while (active)
LoopTest ==
    /\ pc = "while"
    /\ pc' = IF active THEN "getAllWorkflows" ELSE "done"
    /\ UNCHANGED <<now, cfg, staticData, active, loopVars, histVars, fnVars, peerVars>>

\* getAllWorkflows() resolves.  A remote that has not changed answers as it
\* did in the previous cycle.
GetAllWorkflowsOk ==
    /\ pc = "getAllWorkflows"
    /\ list' \in (IF repeat THEN {list} ELSE {ListOf(res) : res \in Responses})
    /\ lastSyncDateIso' = staticData.lastSync
    /\ toEmit' = <<>>
    /\ idx' = 1
    /\ payload' = NoPayload
    /\ sink' = <<>>
    /\ cycleStart' = staticData
    /\ truncated' = FALSE
    /\ outcome' = "running"
    /\ pc' = "for"
    /\ UNCHANGED <<now, cfg, staticData, active, lastEmitted, repeat, prevClean,
                   detailFailed, emittedAfterStop,
                   fnVars, peerVars>>

\* variant: the catch block stamps lastSync
GetAllWorkflowsFailStamping ==
    /\ pc = "getAllWorkflows"
    /\ staticData' = [staticData EXCEPT !.lastSync = ToISOString(now)]
    /\ sink' = <<>>
    /\ cycleStart' = staticData
    /\ truncated' = FALSE
    /\ outcome' = "listFailed"
    /\ repeat' = FALSE
    /\ prevClean' = FALSE
    /\ detailFailed' = {}
    /\ UNCHANGED emittedAfterStop
    /\ list' = <<>>
    /\ UNCHANGED <<lastSyncDateIso, toEmit, idx, payload>>
    /\ pc' = "sleep"
    /\ UNCHANGED <<now, cfg, active, lastEmitted, fnVars, peerVars>>

\* getAllWorkflows() rejects: the catch block logs, the cycle is over
GetAllWorkflowsFail ==
    /\ pc = "getAllWorkflows"
    /\ sink' = <<>>
    /\ cycleStart' = staticData
    /\ truncated' = FALSE
    /\ outcome' = "listFailed"
    /\ repeat' = FALSE
    /\ prevClean' = FALSE
    /\ detailFailed' = {}
    /\ UNCHANGED emittedAfterStop
    /\ list' = <<>>
    /\ UNCHANGED <<lastSyncDateIso, toEmit, idx, payload>>
    /\ pc' = "sleep"
    /\ UNCHANGED <<now, cfg, staticData, active, lastEmitted, fnVars, peerVars>>

\* variant: the record is put at the front of the batch
PushFront(item) ==
    /\ toEmit' = <<item>> \o toEmit
    /\ payload' = NoPayload
    /\ IF cfg.maxPerCycle > 0 /\ Len(toEmit) + 1 >= cfg.maxPerCycle
       THEN /\ truncated' = TRUE
            /\ idx' = idx
            /\ pc' = "emit"
       ELSE /\ truncated' = truncated
            /\ idx' = idx + 1
            /\ pc' = "for"

\* variant: the scan stops only once the batch is longer than the cap
PushPastCap(item) ==
    /\ toEmit' = Append(toEmit, item)
    /\ payload' = NoPayload
    /\ IF cfg.maxPerCycle > 0 /\ Len(toEmit) + 1 > cfg.maxPerCycle
       THEN /\ truncated' = TRUE
            /\ idx' = idx
            /\ pc' = "emit"
       ELSE /\ truncated' = truncated
            /\ idx' = idx + 1
            /\ pc' = "for"

\* toEmit.push({ json: payload }) and the cap test that follows it
Push(item) ==
    /\ toEmit' = Append(toEmit, item)
    /\ payload' = NoPayload
    /\ IF cfg.maxPerCycle > 0 /\ Len(toEmit) + 1 >= cfg.maxPerCycle
       THEN /\ truncated' = TRUE
            /\ idx' = idx
            /\ pc' = "emit"
       ELSE /\ truncated' = truncated
            /\ idx' = idx + 1
            /\ pc' = "for"

\* one turn of for (const wf of list), up to the await of getWorkflow
ForStep ==
    /\ pc = "for"
    /\ IF idx > Len(list)
       THEN /\ pc' = "emit"
            /\ UNCHANGED <<toEmit, idx, payload, truncated>>
       ELSE LET wf == list[idx] IN
            IF ~Qualifies(wf, cfg.excludeRegex, lastSyncDateIso, staticData.seenMap)
            THEN /\ idx' = idx + 1
                 /\ pc' = "for"
                 /\ UNCHANGED <<toEmit, payload, truncated>>
            ELSE IF cfg.emitFullWorkflow
                 THEN /\ payload' = Payload(wf)
                      /\ pc' = "getWorkflow"
                      /\ UNCHANGED <<toEmit, idx, truncated>>
                 ELSE Push(Payload(wf))
    /\ UNCHANGED <<now, cfg, staticData, active, list, lastSyncDateIso,
                   sink, lastEmitted, cycleStart, outcome, repeat, prevClean,
                   detailFailed, emittedAfterStop,
                   fnVars, peerVars>>

\* getWorkflow(id) resolves with the workflow: payload.workflow is set
GetWorkflowOk ==
    /\ pc = "getWorkflow"
    /\ Push([payload EXCEPT !.hasWorkflow = TRUE])
    /\ UNCHANGED <<now, cfg, staticData, active, list, lastSyncDateIso,
                   sink, lastEmitted, cycleStart, outcome, repeat, prevClean,
                   detailFailed, emittedAfterStop,
                   fnVars, peerVars>>

\* variant: a record whose getWorkflow failed is dropped
GetWorkflowFailDropping ==
    /\ pc = "getWorkflow"
    /\ idx' = idx + 1
    /\ payload' = NoPayload
    /\ pc' = "for"
    /\ detailFailed' = detailFailed \cup {payload.id}
    /\ UNCHANGED emittedAfterStop
    /\ UNCHANGED <<now, cfg, staticData, active, list, lastSyncDateIso, toEmit,
                   sink, lastEmitted, cycleStart, truncated, outcome, repeat,
                   prevClean, fnVars, peerVars>>

\* getWorkflow(id) rejects, or resolves with nothing: no workflow field
GetWorkflowFail ==
    /\ pc = "getWorkflow"
    /\ Push(payload)
    /\ detailFailed' = detailFailed \cup {payload.id}
    /\ UNCHANGED emittedAfterStop
    /\ UNCHANGED <<now, cfg, staticData, active, list, lastSyncDateIso,
                   sink, lastEmitted, cycleStart, outcome, repeat, prevClean,
                   fnVars, peerVars>>

\* variant: the batch is handed to this.emit even when it is empty
EmitNothingEmitting ==
    /\ pc = "emit"
    /\ toEmit = <<>>
    /\ sink' = Append(sink, toEmit)
    /\ outcome' = "empty"
    /\ pc' = "sleep"
    /\ UNCHANGED <<now, cfg, staticData, active, loopVars, lastEmitted,
                   cycleStart, truncated, repeat, prevClean,
                   detailFailed, emittedAfterStop,
                   fnVars, peerVars>>

\* variant: lastSync advances at the end of every cycle
EmitNothingAdvancing ==
    /\ pc = "emit"
    /\ toEmit = <<>>
    /\ staticData' = [staticData EXCEPT !.lastSync = ToISOString(now)]
    /\ outcome' = "empty"
    /\ pc' = "sleep"
    /\ UNCHANGED <<now, cfg, active, loopVars, sink, lastEmitted,
                   cycleStart, truncated, repeat, prevClean,
                   detailFailed, emittedAfterStop,
                   fnVars, peerVars>>

\* if (toEmit.length) is false
EmitNothing ==
    /\ pc = "emit"
    /\ toEmit = <<>>
    /\ outcome' = "empty"
    /\ pc' = "sleep"
    /\ UNCHANGED <<now, cfg, staticData, active, loopVars, sink, lastEmitted,
                   cycleStart, truncated, repeat, prevClean,
                   detailFailed, emittedAfterStop,
                   fnVars, peerVars>>

\* the newest updatedAt of a batch
NewestOf(batch) ==
    CHOOSE u \in {batch[j].updatedAt : j \in DOMAIN batch} :
        \A j \in DOMAIN batch : DateLessEq(DateParse(batch[j].updatedAt), DateParse(u))

\* variant: lastSync is taken from the batch instead of the clock
EmitBatchOwnStamp ==
    /\ pc = "emit"
    /\ toEmit # <<>>
    /\ sink' = Append(sink, toEmit)
    /\ staticData' = [staticData EXCEPT
                        !.lastSync = NewestOf(toEmit),
                        !.seenMap = AdvanceSeen(staticData.seenMap, toEmit)]
    /\ lastEmitted' = AdvanceSeen(lastEmitted, toEmit)
    /\ outcome' = "emitted"
    /\ emittedAfterStop' = IF active THEN 0 ELSE emittedAfterStop + 1
    /\ pc' = "sleep"
    /\ UNCHANGED <<now, cfg, active, loopVars, cycleStart, truncated, repeat,
                   prevClean,
                   detailFailed, fnVars, peerVars>>

\* variant: lastSync is written before the next await, seenMap after it
EmitBatchLastSyncFirst ==
    /\ pc = "emit"
    /\ toEmit # <<>>
    /\ sink' = Append(sink, toEmit)
    /\ staticData' = [staticData EXCEPT !.lastSync = ToISOString(now)]
    /\ lastEmitted' = AdvanceSeen(lastEmitted, toEmit)
    /\ outcome' = "emitted"
    /\ emittedAfterStop' = IF active THEN 0 ELSE emittedAfterStop + 1
    /\ pc' = "sleep"
    /\ UNCHANGED <<now, cfg, active, loopVars, cycleStart, truncated, repeat,
                   prevClean, detailFailed, fnVars, peerVars>>

\* this.emit([toEmit]) returns; lastSync and seenMap advance
EmitBatch ==
    /\ pc = "emit"
    /\ toEmit # <<>>
    /\ sink' = Append(sink, toEmit)
    /\ staticData' = [staticData EXCEPT
                        !.lastSync = ToISOString(now),
                        !.seenMap = AdvanceSeen(staticData.seenMap, toEmit)]
    /\ lastEmitted' = AdvanceSeen(lastEmitted, toEmit)
    /\ outcome' = "emitted"
    /\ emittedAfterStop' = IF active THEN 0 ELSE emittedAfterStop + 1
    /\ pc' = "sleep"
    /\ UNCHANGED <<now, cfg, active, loopVars, cycleStart, truncated, repeat,
                   prevClean,
                   detailFailed, fnVars, peerVars>>

\* variant: the exception of this.emit leaves the loop
EmitThrowsEscaping ==
    /\ pc = "emit"
    /\ toEmit # <<>>
    /\ outcome' = "emitFailed"
    /\ pc' = "done"
    /\ UNCHANGED <<now, cfg, staticData, active, loopVars, sink, lastEmitted,
                   cycleStart, truncated, repeat, prevClean, detailFailed, emittedAfterStop,
                   fnVars, peerVars>>

\* this.emit([toEmit]) throws: the catch block logs, nothing is written
EmitThrows ==
    /\ pc = "emit"
    /\ toEmit # <<>>
    /\ outcome' = "emitFailed"
    /\ pc' = "sleep"
    /\ UNCHANGED <<now, cfg, staticData, active, loopVars, sink, lastEmitted,
                   cycleStart, truncated, repeat, prevClean,
                   detailFailed, emittedAfterStop,
                   fnVars, peerVars>>

\* await sleep(intervalSeconds * 1000) resolves.  The locals of the finished
\* iteration are gone.  The remote either stays as it was listed until the
\* next listing (repeat) or changes in some way.
Sleep ==
    /\ pc = "sleep"
    /\ pc' = "while"
    /\ \E same \in BOOLEAN :
          /\ same => outcome \in {"empty", "emitted", "emitFailed"}
          /\ repeat' = same
          /\ prevClean' = (same /\ outcome \in {"empty", "emitted"} /\ ~truncated)
          /\ list' = IF same THEN list ELSE <<>>
    /\ lastSyncDateIso' = Undefined
    /\ toEmit' = <<>>
    /\ idx' = 1
    /\ payload' = NoPayload
    /\ sink' = <<>>
    /\ cycleStart' = staticData
    /\ truncated' = FALSE
    /\ outcome' = "none"
    /\ detailFailed' = {}
    /\ UNCHANGED emittedAfterStop
    /\ UNCHANGED <<now, cfg, staticData, active, lastEmitted, fnVars, peerVars>>

LoopStep ==
    \/ LoopTest
    \/ GetAllWorkflowsOk
    \/ GetAllWorkflowsFail
    \/ ForStep
    \/ GetWorkflowOk
    \/ GetWorkflowFail
    \/ EmitNothing
    \/ EmitBatch
    \/ EmitThrows
    \/ Sleep

Next ==
    \/ trigger
    \/ closeFunction
    \/ ProcessExit
    \/ Tick
    \/ LoopStep

Spec == Init /\ [][Next]_vars

\* the loop's awaits resolve: every request has a timeout and the sleep
\* timer fires
FairSpec == Spec /\ WF_vars(LoopStep)

\* the same program against a remote all of whose workflows are named and
\* carry a valid updatedAt
PlainListings ==
    {l \in Listings :
        \A j \in DOMAIN l :
            HasId(l[j]) /\ l[j].name = "Orders" /\ l[j].updatedAt \in IsoTimes}

PlainLoopStep == LoopStep /\ list' \in PlainListings

PlainNext ==
    \/ trigger
    \/ closeFunction
    \/ ProcessExit
    \/ Tick
    \/ PlainLoopStep

PlainFairSpec == Init /\ [][PlainNext]_vars /\ WF_vars(PlainLoopStep)

-----------------------------------------------------------------------------
(* Two nodes of this type.  getWorkflowStaticData('global') gives a node   *)
(* the static data of the workflow it belongs to: two nodes of one         *)
(* workflow receive the same object, nodes of different workflows receive  *)
(* different ones.  The second node runs without a cap and without         *)
(* enrichment, so what follows its listing request is one synchronous      *)
(* block, which can run only while the first node's loop is at an await.   *)

\* the second node, in the same workflow or in another, its trigger() done
Peers ==
    {[shared |-> b,
      staticData |-> [lastSync |-> EpochIso, hasSeenMap |-> TRUE,
                      seenMap |-> NoSeenMap],
      batch |-> <<>>] : b \in BOOLEAN}

\* the listings the second node receives
PeerListings == {<<Wf(1, "Orders", u, Undefined)>> : u \in IsoTimes}

\* the object getWorkflowStaticData('global') has returned to the second node
PeerData == IF peer.shared THEN staticData ELSE peer.staticData

PairInit ==
    /\ ProgramInit
    /\ fnArgs = FnIdle
    /\ fnCalled = FALSE
    /\ fnResult = FALSE
    /\ peer \in Peers

\* a cycle of the second node from the arrival of its listing: scan, emit,
\* advance lastSync and seenMap
PeerCycle ==
    /\ pc \in {"getAllWorkflows", "getWorkflow", "sleep"}
    /\ \E l \in PeerListings :
          LET batch == QualifyingOf(l, DefaultExcludeRegex, PeerData.lastSync,
                                    PeerData.seenMap)
              data == [PeerData EXCEPT
                          !.lastSync = ToISOString(now),
                          !.seenMap = AdvanceSeen(PeerData.seenMap, batch)]
          IN  /\ batch # <<>>
              /\ IF peer.shared
                 THEN /\ staticData' = data
                      /\ peer' = [peer EXCEPT !.batch = batch]
                 ELSE /\ staticData' = staticData
                      /\ peer' = [peer EXCEPT !.batch = batch, !.staticData = data]
    /\ UNCHANGED <<now, cfg, active, pc, loopVars, histVars, fnVars>>

PairNext ==
    \/ trigger
    \/ Tick
    \/ LoopStep
    \/ PeerCycle

PairSpec == PairInit /\ [][PairNext]_vars

-----------------------------------------------------------------------------
(* shouldEmit called directly, as the unit tests call it *)

FnInputs == IsoTimes \cup {EpochIso, Undefined, "", "nope"}

FnInit ==
    /\ ProgramInit
    /\ fnArgs \in [u : FnInputs, l : FnInputs, s : FnInputs]
    /\ fnCalled = FALSE
    /\ fnResult = FALSE
    /\ peer = NoPeer

CallShouldEmit ==
    /\ ~fnCalled
    /\ fnCalled' = TRUE
    /\ fnResult' = shouldEmit(fnArgs.u, fnArgs.l, fnArgs.s)
    /\ UNCHANGED <<now, cfg, staticData, active, pc, loopVars, histVars, fnArgs,
                   peerVars>>

FnNext == CallShouldEmit

FnSpec == FnInit /\ [][FnNext]_vars

-----------------------------------------------------------------------------
(* Properties of shouldEmit, checked under FnSpec *)

Parseable(v) == ~Falsy(v) /\ DateParse(v) # NaN

Corrupted(v) == ~Falsy(v) /\ DateParse(v) = NaN

\* C5: for parseable updatedAt, lastSync and seenAt, shouldEmit returns true
\* exactly when updatedAt is strictly later than lastSync and strictly later
\* than seenAt; equality with either watermark gives false.
C5_StrictlyLaterThanBoth ==
    (fnCalled /\ Parseable(fnArgs.u) /\ Parseable(fnArgs.l) /\ Parseable(fnArgs.s))
        => (fnResult <=> (/\ DateParse(fnArgs.u) > DateParse(fnArgs.l)
                          /\ DateParse(fnArgs.u) > DateParse(fnArgs.s)))

\* a call with three parseable timestamps, updatedAt equal to lastSync and
\* later than seenAt, has returned false
C5_Witness ==
    /\ fnCalled
    /\ Parseable(fnArgs.u) /\ Parseable(fnArgs.l) /\ Parseable(fnArgs.s)
    /\ DateParse(fnArgs.u) = DateParse(fnArgs.l)
    /\ DateParse(fnArgs.u) > DateParse(fnArgs.s)
    /\ ~fnResult

EpochIfFalsy(v) == IF Falsy(v) THEN EpochIso ELSE v

\* C7: a call whose lastSync and/or seenAt is absent or empty returns what
\* the call with the epoch string in that position returns.
C7_MissingWatermarkIsEpoch ==
    fnCalled =>
        fnResult = shouldEmit(fnArgs.u, EpochIfFalsy(fnArgs.l), EpochIfFalsy(fnArgs.s))

\* a call with lastSync absent and seenAt empty has returned true
C7_Witness ==
    /\ fnCalled
    /\ fnArgs.l = Undefined
    /\ fnArgs.s = ""
    /\ fnResult

EpochIfCorrupted(v) == IF Corrupted(v) THEN EpochIso ELSE v

\* C8: for a valid updatedAt, a call whose lastSync or seenAt is non-empty
\* but unparseable returns what the call with the epoch in that position
\* returns.
C8_CorruptedWatermarkIsEpoch ==
    (fnCalled /\ Parseable(fnArgs.u)) =>
        fnResult = shouldEmit(fnArgs.u, EpochIfCorrupted(fnArgs.l),
                              EpochIfCorrupted(fnArgs.s))

-----------------------------------------------------------------------------
(* Properties of the polling loop, checked under Spec *)

\* the step hands a batch to this.emit
EmitsNow == Len(sink') = Len(sink) + 1

\* the batch of the cycle that has just ended with an emission
Batch == sink[Len(sink)]

StrictlyLater(u, v) == DateGreater(DateParse(u), DateParse(v))

\* C1: every emitted record carries an updatedAt strictly later than the
\* updatedAt of the previous emission of the same identifier, whether that
\* emission was earlier in the same batch, in an earlier cycle or before a
\* restart; so no identifier is emitted twice with one updatedAt.
C1_NoDuplicateEmission ==
    [][EmitsNow =>
        LET batch == sink'[Len(sink')] IN
        \A j \in DOMAIN batch :
            /\ batch[j].id \in DOMAIN lastEmitted =>
                  StrictlyLater(batch[j].updatedAt, lastEmitted[batch[j].id])
            /\ \A k \in 1..(j - 1) :
                  batch[k].id = batch[j].id =>
                      StrictlyLater(batch[j].updatedAt, batch[k].updatedAt)]_vars

\* a cycle has emitted an identifier that had been emitted before
C1_Witness ==
    /\ pc = "sleep"
    /\ outcome = "emitted"
    /\ \E j \in DOMAIN Batch : Batch[j].id \in DOMAIN cycleStart.seenMap

\* the entries the scan of the cycle did not reach
Unscanned == {j \in DOMAIN list : j > idx}

\* C3: after a cycle whose scan the cap stopped, every entry that qualified
\* when the cycle began and was not emitted still qualifies against the
\* watermarks the cycle has written.
C3_DeferredStaysEligible ==
    (pc = "sleep" /\ outcome = "emitted" /\ truncated) =>
        \A j \in Unscanned :
            Qualifies(list[j], cfg.excludeRegex, cycleStart.lastSync, cycleStart.seenMap)
                => Qualifies(list[j], cfg.excludeRegex, staticData.lastSync,
                             staticData.seenMap)

\* C4 as stated: a cycle that runs against the listing of the cycle before
\* it emits nothing and leaves lastSync and seenMap as they were.
C4_SecondCycleIdle ==
    (pc = "sleep" /\ repeat) => (sink = <<>> /\ staticData = cycleStart)

\* C4 amended: if the previous cycle ended without a failure and without
\* the cap stopping its scan, a cycle that runs with the same parameters
\* against the same listing has an empty batch, emits nothing and leaves
\* lastSync and seenMap as they were.
C4_SecondCycleIdleAfterCleanCycle ==
    (pc = "sleep" /\ repeat /\ prevClean) =>
        (toEmit = <<>> /\ sink = <<>> /\ staticData = cycleStart)

\* a repeated cycle has ended whose listing holds a workflow with the very
\* updatedAt that was emitted for it
C4_Witness ==
    /\ pc = "sleep"
    /\ repeat
    /\ prevClean
    /\ \E j \in DOMAIN list :
          /\ HasId(list[j])
          /\ IdString(list[j].id) \in DOMAIN lastEmitted
          /\ lastEmitted[IdString(list[j].id)] = UpdatedAtOf(list[j])

Unusable(v) == Falsy(v) \/ DateParse(v) = NaN

\* shouldEmit rejects an unusable updatedAt whatever the watermarks
RejectsUnusable ==
    \A u \in {v \in FnInputs : Unusable(v)}, l \in FnInputs, s \in FnInputs :
        ~shouldEmit(u, l, s)

\* C6: shouldEmit returns false for every lastSync and seenAt when updatedAt
\* is absent, empty or unparseable; no record with such an updatedAt is ever
\* queued or emitted, and no such value is ever stored in seenMap.
C6_UnusableUpdatedAtNeverEmits ==
    /\ RejectsUnusable
    /\ \A j \in DOMAIN toEmit : ~Unusable(toEmit[j].updatedAt)
    /\ \A b \in DOMAIN sink : \A j \in DOMAIN sink[b] : ~Unusable(sink[b][j].updatedAt)
    /\ \A k \in DOMAIN staticData.seenMap : ~Unusable(staticData.seenMap[k])
    /\ (pc = "sleep" /\ outcome \in {"empty", "emitted"}) =>
          \A j \in 1..Len(list) :
              (j <= idx /\ HasId(list[j]) /\ Unusable(UpdatedAtOf(list[j]))) =>
                  /\ SeenAt(staticData.seenMap, IdString(list[j].id))
                        = SeenAt(cycleStart.seenMap, IdString(list[j].id))
                  /\ \A b \in DOMAIN sink : \A i \in DOMAIN sink[b] :
                        sink[b][i].id # IdString(list[j].id)

\* a cycle has scanned a listed workflow whose updatedAt is unusable, and
\* has emitted another workflow of the same listing
C6_Witness ==
    /\ pc = "sleep"
    /\ outcome = "emitted"
    /\ \E j \in 1..Len(list) :
          /\ j <= idx
          /\ HasId(list[j])
          /\ ~Excluded(cfg.excludeRegex, NameOf(list[j]))
          /\ Unusable(UpdatedAtOf(list[j]))

\* C9: the step that emits a batch sets lastSync to the wall clock read at
\* that step and sets seenMap[id] to the updatedAt of every emitted record.
C9_WatermarksAfterEmission ==
    [][EmitsNow =>
        LET batch == sink'[Len(sink')] IN
        /\ staticData'.lastSync = ToISOString(now)
        /\ \A j \in DOMAIN batch :
              SeenAt(staticData'.seenMap, batch[j].id) = batch[j].updatedAt]_vars

\* a cycle has emitted a batch and lastSync is the timestamp of none of its
\* records
C9_Witness ==
    /\ pc = "sleep"
    /\ outcome = "emitted"
    /\ \A j \in DOMAIN Batch : Batch[j].updatedAt # staticData.lastSync
    /\ \A j \in DOMAIN Batch : staticData.seenMap[Batch[j].id] = Batch[j].updatedAt

\* C10: a cycle whose batch is empty leaves lastSync and every seenMap entry
\* as they were when the cycle began.
C10_EmptyBatchKeepsWatermarks ==
    (pc = "sleep" /\ outcome = "empty") => staticData = cycleStart

\* a cycle over a non-empty listing has ended with an empty batch after an
\* earlier cycle had advanced the watermarks
C10_Witness ==
    /\ pc = "sleep"
    /\ outcome = "empty"
    /\ list # <<>>
    /\ staticData.lastSync # EpochIso

\* C11: in every cycle this.emit is called at most once, and every batch
\* handed to it holds at least one record.
C11_OneNonEmptyEmissionPerCycle ==
    /\ Len(sink) <= 1
    /\ \A b \in DOMAIN sink : sink[b] # <<>>
    /\ (pc = "sleep" /\ outcome \in {"empty", "listFailed", "emitFailed"}) => sink = <<>>

\* a cycle that queued two records has handed them to this.emit in one call
C11_Witness ==
    /\ pc = "sleep"
    /\ outcome = "emitted"
    /\ Len(sink) = 1
    /\ Len(Batch) = 2

\* C12: a cycle whose listing request fails calls this.emit not at all and
\* leaves lastSync and seenMap as they were when the cycle began.
C12_ListingFailureKeepsState ==
    (pc = "sleep" /\ outcome = "listFailed") =>
        (sink = <<>> /\ toEmit = <<>> /\ staticData = cycleStart)

\* a listing request has failed after an earlier cycle had emitted
C12_Witness ==
    /\ pc = "sleep"
    /\ outcome = "listFailed"
    /\ staticData.lastSync # EpochIso
    /\ DOMAIN staticData.seenMap # {}

\* the entries the scan of the finished cycle went through
Scanned == SubSeq(list, 1, IF truncated THEN idx ELSE Len(list))

\* a batch without its workflow fields
Bare(batch) == [j \in DOMAIN batch |-> [batch[j] EXCEPT !.hasWorkflow = FALSE]]

\* C13: a record whose detail request has failed is queued without the
\* workflow field; when the cycle emits, the record is in the batch, its
\* seenMap entry is its updatedAt, and the batch is, in identifiers, names,
\* timestamps and order, the one the scan selects, every other record
\* carrying its workflow field.
C13_DetailFailureKeepsRecord ==
    /\ \A id \in detailFailed :
          \E j \in DOMAIN toEmit : toEmit[j].id = id /\ ~toEmit[j].hasWorkflow
    /\ (pc = "sleep" /\ outcome = "emitted") =>
          /\ \A id \in detailFailed :
                \E j \in DOMAIN Batch :
                    /\ Batch[j].id = id
                    /\ ~Batch[j].hasWorkflow
                    /\ SeenAt(staticData.seenMap, id) = Batch[j].updatedAt
          /\ Bare(Batch) = QualifyingOf(Scanned, cfg.excludeRegex,
                                        cycleStart.lastSync, cycleStart.seenMap)
          /\ \A j \in DOMAIN Batch :
                (cfg.emitFullWorkflow /\ Batch[j].id \notin detailFailed)
                    => Batch[j].hasWorkflow

\* a cycle has emitted two records, the detail request of the first having
\* failed and that of the second having succeeded
C13_Witness ==
    /\ pc = "sleep"
    /\ outcome = "emitted"
    /\ Len(Batch) = 2
    /\ detailFailed = {Batch[1].id}
    /\ Batch[2].hasWorkflow

\* C14: no record whose name matches the exclusion pattern is queued or
\* emitted; a listed workflow whose name, or whose placeholder name when it
\* has none, matches the pattern is not in the cycle's batch whatever its
\* timestamp, and the cycle leaves seenMap without a new or changed entry
\* for it.
C14_ExcludedNeverEmitted ==
    /\ \A j \in DOMAIN toEmit : ~Excluded(cfg.excludeRegex, toEmit[j].name)
    /\ \A b \in DOMAIN sink : \A j \in DOMAIN sink[b] :
          ~Excluded(cfg.excludeRegex, sink[b][j].name)
    /\ pc = "sleep" =>
          \A j \in DOMAIN list :
              (HasId(list[j]) /\ Excluded(cfg.excludeRegex, NameOf(list[j]))) =>
                  /\ \A b \in DOMAIN sink : \A i \in DOMAIN sink[b] :
                        sink[b][i].id # IdString(list[j].id)
                  /\ SeenAt(staticData.seenMap, IdString(list[j].id))
                        = SeenAt(cycleStart.seenMap, IdString(list[j].id))

\* a cycle has emitted a workflow and passed over a nameless one whose
\* placeholder name matches the pattern and whose timestamp is later than
\* both of its watermarks
C14_Witness ==
    /\ pc = "sleep"
    /\ outcome = "emitted"
    /\ \E j \in DOMAIN list :
          /\ HasId(list[j])
          /\ list[j].name = Undefined
          /\ Excluded(cfg.excludeRegex, NameOf(list[j]))
          /\ shouldEmit(UpdatedAtOf(list[j]), cycleStart.lastSync,
                        SeenAt(cycleStart.seenMap, IdString(list[j].id)))

\* C15: under a cap greater than zero no queued or emitted batch has more
\* records than the cap; under a cap of zero or less the emitted batch holds,
\* in order, every entry of the listing that qualifies against the
\* watermarks of the start of the cycle.
C15_CapBoundsBatch ==
    /\ cfg.maxPerCycle > 0 =>
          /\ Len(toEmit) <= cfg.maxPerCycle
          /\ \A b \in DOMAIN sink : Len(sink[b]) <= cfg.maxPerCycle
    /\ (pc = "sleep" /\ outcome = "emitted" /\ cfg.maxPerCycle <= 0) =>
          /\ ~truncated
          /\ Bare(Batch) = QualifyingOf(list, cfg.excludeRegex,
                                        cycleStart.lastSync, cycleStart.seenMap)

\* under a cap of one a cycle has emitted one record and left unscanned an
\* entry that qualified
C15_Witness ==
    /\ pc = "sleep"
    /\ outcome = "emitted"
    /\ cfg.maxPerCycle = 1
    /\ Len(Batch) = 1
    /\ \E j \in Unscanned :
          Qualifies(list[j], cfg.excludeRegex, cycleStart.lastSync, cycleStart.seenMap)

\* under a cap below zero a cycle has emitted two records
C15_NegativeCapReached ==
    /\ pc = "sleep"
    /\ outcome = "emitted"
    /\ cfg.maxPerCycle < 0
    /\ Len(Batch) = 2

\* the instant a stored lastSync stands for, an absent one being the epoch
LastSyncTime(data) == DateParse(EpochIfFalsy(data.lastSync))

\* C16: given a wall clock that does not run backwards, no step of the
\* program, a restart included, moves lastSync to an earlier instant.
C16_LastSyncNeverDecreases ==
    [][DateLessEq(LastSyncTime(staticData), LastSyncTime(staticData'))]_vars

\* a cycle has moved lastSync forward from a value that an earlier cycle
\* had written
C16_Witness ==
    /\ pc = "sleep"
    /\ outcome = "emitted"
    /\ cycleStart.lastSync # EpochIso
    /\ DateGreater(LastSyncTime(staticData), LastSyncTime(cycleStart))

\* C20: no step removes a key from seenMap, and a step that adds a key or
\* changes an entry is the emission of a batch holding a record of that
\* identifier; so a cycle leaves the entry of every identifier outside its
\* batch as it was.
C20_SeenMapFrame ==
    [][/\ DOMAIN staticData.seenMap \subseteq DOMAIN staticData'.seenMap
       /\ \A k \in DOMAIN staticData'.seenMap :
             SeenAt(staticData'.seenMap, k) # SeenAt(staticData.seenMap, k) =>
                 /\ EmitsNow
                 /\ \E j \in DOMAIN sink'[Len(sink')] : sink'[Len(sink')][j].id = k]_vars

\* a cycle has emitted one workflow while seenMap held an entry of another,
\* which is still there
C20_Witness ==
    /\ pc = "sleep"
    /\ outcome = "emitted"
    /\ \E k \in DOMAIN cycleStart.seenMap :
          /\ \A j \in DOMAIN Batch : Batch[j].id # k
          /\ k \in DOMAIN staticData.seenMap
          /\ staticData.seenMap[k] = cycleStart.seenMap[k]

\* the loop is suspended at an await: a request or the sleep is pending
Suspended == pc \in {"getAllWorkflows", "getWorkflow", "sleep"}

\* C21: at every await of the loop, lastSync and seenMap are as they were
\* when the cycle began, or the cycle's this.emit has returned and seenMap
\* holds the updatedAt of every record of the batch; after a this.emit that
\* threw, both are as they were when the cycle began.
C21_WatermarksAdvanceTogether ==
    /\ (Suspended /\ staticData # cycleStart) =>
          /\ pc = "sleep"
          /\ outcome = "emitted"
          /\ Len(sink) = 1
          /\ \A j \in DOMAIN Batch :
                SeenAt(staticData.seenMap, Batch[j].id) = Batch[j].updatedAt
          /\ \A k \in DOMAIN staticData.seenMap :
                (\A j \in DOMAIN Batch : Batch[j].id # k) =>
                    SeenAt(cycleStart.seenMap, k) = staticData.seenMap[k]
    /\ (pc = "sleep" /\ outcome = "emitFailed") =>
          (sink = <<>> /\ staticData = cycleStart)

\* this.emit has thrown on a batch of two records after an earlier cycle had
\* advanced the watermarks
C21_Witness ==
    /\ pc = "sleep"
    /\ outcome = "emitFailed"
    /\ Len(toEmit) = 2
    /\ staticData.lastSync # EpochIso

\* the first cap records of a sequence, all of them under a cap of zero or less
FirstUpTo(cap, records) ==
    IF cap > 0 /\ Len(records) > cap THEN SubSeq(records, 1, cap) ELSE records

\* C22: the batch a cycle queues, and emits, is the sequence of the entries
\* of the listing that qualify against the lastSync and the seenMap of the
\* start of the cycle, in listing order, cut to its first cap records under
\* a positive cap.
C22_BatchIsQualifyingInOrder ==
    (pc = "sleep" /\ outcome \in {"empty", "emitted", "emitFailed"}) =>
        /\ Bare(toEmit) =
              FirstUpTo(cfg.maxPerCycle,
                        QualifyingOf(list, cfg.excludeRegex, cycleStart.lastSync,
                                     cycleStart.seenMap))
        /\ outcome = "emitted" => sink = <<toEmit>>

\* a cycle that began with a seenMap entry has emitted two records, in the
\* order of a listing that reports workflow 2 before workflow 1
C22_Witness ==
    /\ pc = "sleep"
    /\ outcome = "emitted"
    /\ DOMAIN cycleStart.seenMap # {}
    /\ Len(Batch) = 2
    /\ Batch[1].id = IdString(2)
    /\ Batch[2].id = IdString(1)

\* the identifiers of the records of a batch
IdsOf(batch) == {batch[j].id : j \in DOMAIN batch}

\* C23: an entry that is null or has no id is never queued and never gets a
\* seenMap key, and it does not end the scan: a cycle whose listing holds
\* such an entry still queues every qualifying entry the cap admits, those
\* after it included, and its emission adds to seenMap the keys of its
\* batch and no other.
C23_MissingIdSkipped ==
    /\ IdString(NoId) \notin DOMAIN staticData.seenMap
    /\ IdString(NoId) \notin IdsOf(toEmit)
    /\ (pc = "sleep" /\ outcome \in {"empty", "emitted", "emitFailed"}) =>
          /\ ~truncated =>
                \A j \in DOMAIN list :
                    Qualifies(list[j], cfg.excludeRegex, cycleStart.lastSync,
                              cycleStart.seenMap)
                        => IdString(list[j].id) \in IdsOf(toEmit)
          /\ outcome = "emitted" =>
                DOMAIN staticData.seenMap
                    = DOMAIN cycleStart.seenMap \cup IdsOf(toEmit)
          /\ \A j \in DOMAIN list :
                ~HasId(list[j]) => (idx > j \/ (truncated /\ idx < j))

\* a cycle whose listing begins with an entry that is null or has no id has
\* emitted the entry that follows it
C23_Witness ==
    /\ pc = "sleep"
    /\ outcome = "emitted"
    /\ Len(list) = 2
    /\ ~HasId(list[1])
    /\ IdsOf(Batch) = {IdString(list[2].id)}

\* the step is a call of trigger()
TriggerRuns == pc \in {"idle", "done"} /\ pc' = "while"

\* C24: trigger() sets lastSync to the epoch only when none is stored and
\* seenMap to the empty map only when none is stored, and leaves a stored
\* lastSync and every stored seenMap entry as they are; so at every moment,
\* restarts included, seenMap holds for each identifier the updatedAt of
\* its latest emission.
C24_RestartPreservesWatermarks ==
    /\ [](\A id \in DOMAIN lastEmitted :
             SeenAt(staticData.seenMap, id) = lastEmitted[id])
    /\ [][TriggerRuns =>
            /\ staticData'.lastSync = EpochIfFalsy(staticData.lastSync)
            /\ staticData'.seenMap = staticData.seenMap
            /\ staticData.hasSeenMap =>
                  \A k \in DOMAIN staticData.seenMap :
                      SeenAt(staticData'.seenMap, k) = staticData.seenMap[k]]_vars

\* trigger() has run on static data that holds the lastSync and the seenMap
\* entry written by an earlier run
C24_Witness ==
    /\ outcome = "started"
    /\ pc = "while"
    /\ staticData.lastSync # EpochIso
    /\ DOMAIN staticData.seenMap # {}
    /\ staticData.seenMap = lastEmitted

\* C25: a step that changes a seenMap entry stores a timestamp strictly
\* later than the one it replaces, and a step that emits a record for an
\* identifier seenMap knows stores that record's updatedAt, which is
\* strictly later than the entry before the step.
C25_SeenMapStrictlyIncreasing ==
    [][/\ \A k \in DOMAIN staticData.seenMap :
             SeenAt(staticData'.seenMap, k) # staticData.seenMap[k] =>
                 StrictlyLater(SeenAt(staticData'.seenMap, k), staticData.seenMap[k])
       /\ EmitsNow =>
             LET batch == sink'[Len(sink')] IN
             \A j \in DOMAIN batch :
                 batch[j].id \in DOMAIN staticData.seenMap =>
                     /\ staticData'.seenMap[batch[j].id] = batch[j].updatedAt
                     /\ StrictlyLater(batch[j].updatedAt,
                                      staticData.seenMap[batch[j].id])]_vars

\* a cycle has ended whose listing reported, for a workflow in seenMap, an
\* updatedAt earlier than the stored one, and the entry is as it was
C25_Witness ==
    /\ pc = "sleep"
    /\ outcome \in {"empty", "emitted"}
    /\ \E j \in DOMAIN list :
          /\ HasId(list[j])
          /\ IdString(list[j].id) \in DOMAIN cycleStart.seenMap
          /\ StrictlyLater(cycleStart.seenMap[IdString(list[j].id)],
                           UpdatedAtOf(list[j]))
          /\ staticData.seenMap[IdString(list[j].id)]
                = cycleStart.seenMap[IdString(list[j].id)]

\* the step is a call of closeFunction()
StopRequested == active /\ ~active' /\ pc' # "idle"

\* C26: closeFunction() changes nothing but the active flag, so the cycle
\* in flight goes on from where it was, and the loop emits at most one
\* batch after the call.
C26_StopLetsCycleFinish ==
    /\ [](emittedAfterStop <= 1)
    /\ [][StopRequested =>
            UNCHANGED <<pc, staticData, list, lastSyncDateIso, toEmit, idx,
                        payload, sink>>]_vars

\* closeFunction() was called while a request of the cycle was pending, and
\* the cycle has since emitted its batch and advanced the watermarks
C26_Witness ==
    /\ ~active
    /\ pc = "sleep"
    /\ outcome = "emitted"
    /\ emittedAfterStop = 1
    /\ staticData # cycleStart

-----------------------------------------------------------------------------
(* Properties of the polling loop, checked under FairSpec *)

\* a listing has just reported workflow id, not excluded, with a valid
\* updatedAt later than the one last emitted for it
ReportedChanged(id) ==
    /\ pc = "for"
    /\ idx = 1
    /\ \E j \in DOMAIN list :
          /\ HasId(list[j])
          /\ IdString(list[j].id) = id
          /\ ~Excluded(cfg.excludeRegex, NameOf(list[j]))
          /\ Parseable(UpdatedAtOf(list[j]))
          /\ id \in DOMAIN lastEmitted =>
                StrictlyLater(UpdatedAtOf(list[j]), lastEmitted[id])

\* a record for workflow id has been emitted by the cycle
EmittedInCycle(id) ==
    /\ outcome = "emitted"
    /\ \E j \in DOMAIN Batch : Batch[j].id = id

\* the claim's provisos fail: the loop is stopped or gone, the listing or
\* the emission has failed, or the remote no longer reports the change
Excused(id) ==
    \/ ~active
    \/ pc \in {"idle", "done"}
    \/ outcome \in {"listFailed", "emitFailed"}
    \/ (pc = "for" /\ idx = 1 /\ ~ReportedChanged(id))

\* C2: whenever a listing reports a workflow with an updatedAt later than
\* the one last emitted for it, a record for that workflow is eventually
\* emitted, unless the loop stops, a listing or an emission fails, or the
\* remote stops reporting the change.
C2_ChangeEventuallyEmitted ==
    \A id \in {IdString(w) : w \in WorkflowIds} :
        ReportedChanged(id) ~> (EmittedInCycle(id) \/ Excused(id))

-----------------------------------------------------------------------------
(* Properties of the loop's control flow, checked under PlainFairSpec *)

\* the listing request or this.emit has failed in the cycle that is ending
CycleFailed == outcome \in {"listFailed", "emitFailed"}

\* C17: a cycle in which the listing request or this.emit fails ends at the
\* sleep, and from there the loop goes on to the next listing request
\* unless the active flag is cleared or the process ends.
C17_FailureDoesNotHaltLoop ==
    /\ [](CycleFailed => pc = "sleep")
    /\ CycleFailed ~> (pc = "getAllWorkflows" \/ ~active)

\* the listing request of a cycle has failed and the loop is at the sleep,
\* the active flag set
C17_Witness ==
    /\ outcome = "listFailed"
    /\ pc = "sleep"
    /\ active

\* C18: while the active flag is cleared no listing request begins, and,
\* the pending sleep and requests completing, the loop comes to its end.
C18_StopEndsLoop ==
    /\ [][(~active /\ pc' = "getAllWorkflows") => pc = "getAllWorkflows"]_vars
    /\ ~active ~> (pc \in {"done", "idle"})

\* closeFunction was called on a loop that had emitted, and the loop has
\* left its while statement
C18_Witness ==
    /\ pc = "done"
    /\ ~active
    /\ DOMAIN staticData.seenMap # {}

-----------------------------------------------------------------------------
(* Properties of two nodes, checked under PairSpec *)

\* the second node emits in this step
PeerEmitsNow == peer'.batch # peer.batch

\* C19: a cycle of one node never changes the lastSync or the seenMap that
\* the other node reads.
C19_IndependentWatermarks ==
    [][/\ PeerEmitsNow => staticData' = staticData
       /\ EmitsNow => PeerData' = PeerData]_vars

====
